---- MODULE Spec2Model ----
(***************************************************************************)
(* Model of scripts/generate_work_pages.py: the field normalisers          *)
(* (slug_id, parse_date, parse_list, yaml_quote, to_yaml_value,            *)
(* build_front_matter) and the row loop of main() with its write policy.   *)
(*                                                                         *)
(* Text is modelled character by character: a Python str is a sequence of  *)
(* one-character strings.  A cell value is a tagged record (PyNone, PyStr, *)
(* PyInt, PyFloat, PyDate), so that str(), truthiness and isinstance()     *)
(* behave as in the source.                                                *)
(***************************************************************************)
EXTENDS Integers, Sequences, FiniteSets, TLC

\* ------------------------------------------------------------------------
\* Bounds of the model
\* ------------------------------------------------------------------------
MaxIdLen == 4
MaxWidth == 5
MaxRows == 2

\* ------------------------------------------------------------------------
\* Python values
\* ------------------------------------------------------------------------
PyNone == [t |-> "none"]
PyStr(s) == [t |-> "str", s |-> s]
PyInt(n) == [t |-> "int", n |-> n]
\* an integer-valued float n.0, as Excel numeric cells give
PyFloat(n) == [t |-> "float", n |-> n]
PyDate(y, m, d) == [t |-> "date", y |-> y, m |-> m, d |-> d]
PyBool(b) == [t |-> "bool", b |-> b]
\* a list of str, each a sequence of characters
PyList(xs) == [t |-> "list", xs |-> xs]

Digits == <<"0", "1", "2", "3", "4", "5", "6", "7", "8", "9">>

IsDigit(c) == \E i \in 1..10 : Digits[i] = c

DigitVal(c) == (CHOOSE i \in 1..10 : Digits[i] = c) - 1

IsSpace(c) == c \in {" ", "\t", "\n", "\r"}

RECURSIVE NatToStr(_)
NatToStr(n) == IF n < 10 THEN <<Digits[n + 1]>>
               ELSE NatToStr(n \div 10) \o <<Digits[(n % 10) + 1]>>

RECURSIVE StrToNat(_)
StrToNat(s) == IF s = <<>> THEN 0
               ELSE 10 * StrToNat(SubSeq(s, 1, Len(s) - 1)) + DigitVal(s[Len(s)])

\* str.zfill on a string without a sign
RECURSIVE ZFill(_, _)
ZFill(s, w) == IF Len(s) >= w THEN s ELSE ZFill(<<"0">> \o s, w)

\* datetime.date.isoformat(): YYYY-MM-DD
IsoFormat(y, m, d) ==
    ZFill(NatToStr(y), 4) \o <<"-">> \o ZFill(NatToStr(m), 2) \o <<"-">> \o ZFill(NatToStr(d), 2)

\* str(v)
Str(v) ==
    CASE v.t = "none" -> <<"N", "o", "n", "e">>
      [] v.t = "str" -> v.s
      [] v.t = "int" -> NatToStr(v.n)
      [] v.t = "float" -> NatToStr(v.n) \o <<".", "0">>
      [] v.t = "date" -> IsoFormat(v.y, v.m, v.d)
      [] v.t = "bool" -> IF v.b THEN <<"T", "r", "u", "e">> ELSE <<"F", "a", "l", "s", "e">>

\* bool(v)
Truthy(v) ==
    CASE v.t = "none" -> FALSE
      [] v.t = "str" -> v.s # <<>>
      [] v.t = "int" -> v.n # 0
      [] v.t = "float" -> v.n # 0
      [] v.t = "date" -> TRUE
      [] v.t = "bool" -> v.b
      [] v.t = "list" -> v.xs # <<>>

RECURSIVE LStrip(_)
LStrip(s) == IF s # <<>> /\ IsSpace(s[1]) THEN LStrip(Tail(s)) ELSE s

RECURSIVE RStrip(_)
RStrip(s) == IF s # <<>> /\ IsSpace(s[Len(s)]) THEN RStrip(SubSeq(s, 1, Len(s) - 1)) ELSE s

Strip(s) == RStrip(LStrip(s))

EndsWith(s, suf) ==
    Len(s) >= Len(suf) /\ SubSeq(s, Len(s) - Len(suf) + 1, Len(s)) = suf

\* re.sub(r"\.0$", "", s): "$" matches at the end and before a final newline
SubDotZero(s) ==
    IF EndsWith(s, <<".", "0">>) THEN SubSeq(s, 1, Len(s) - 2)
    ELSE IF EndsWith(s, <<".", "0", "\n">>) THEN SubSeq(s, 1, Len(s) - 3) \o <<"\n">>
    ELSE s

\* re.sub(r"\D", "", s)
KeepDigits(s) == SelectSeq(s, IsDigit)

Ok(v) == [err |-> FALSE, v |-> v]
ValueError == [err |-> TRUE, v |-> <<>>]

\* ------------------------------------------------------------------------
\* slug_id
\* ------------------------------------------------------------------------
DefaultWidth == 5

\* a slug_id that forgets the Excel ".0" artefact
slug_id_keeps_suffix(raw, width) ==
    IF raw.t = "none" THEN ValueError
    ELSE LET s == KeepDigits(Strip(Str(raw)))
         IN IF s = <<>> THEN ValueError ELSE Ok(ZFill(s, width))

slug_id(raw, width) ==
    IF raw.t = "none" THEN ValueError
    ELSE LET s0 == Strip(Str(raw))
             s1 == SubDotZero(s0)
             s2 == KeepDigits(s1)
         IN IF s2 = <<>> THEN ValueError ELSE Ok(ZFill(s2, width))

\* ------------------------------------------------------------------------
\* parse_date
\* ------------------------------------------------------------------------
AllDigits(s) == \A i \in 1..Len(s) : IsDigit(s[i])

IsLeap(y) == (y % 4 = 0 /\ y % 100 # 0) \/ y % 400 = 0

DaysInMonth(y, m) ==
    IF m = 2 THEN (IF IsLeap(y) THEN 29 ELSE 28)
    ELSE IF m \in {4, 6, 9, 11} THEN 30 ELSE 31

\* datetime.date(y, m, d) succeeds
ValidDate(y, m, d) ==
    /\ y >= 1 /\ y <= 9999
    /\ m >= 1 /\ m <= 12
    /\ d >= 1 /\ d <= DaysInMonth(y, m)

\* the lengths k of the month group with which ^(\d{4})-(\d{1,2})-(\d{1,2})$ matches s
YmdSplits(s) ==
    {k \in {1, 2} :
        /\ Len(s) >= 7 + k
        /\ Len(s) <= 8 + k
        /\ AllDigits(SubSeq(s, 1, 4))
        /\ s[5] = "-"
        /\ AllDigits(SubSeq(s, 6, 5 + k))
        /\ s[6 + k] = "-"
        /\ AllDigits(SubSeq(s, 7 + k, Len(s)))}

\* a parse_date that clamps instead of validating the calendar date
parse_date_unchecked(raw) ==
    IF raw.t = "none" \/ Strip(Str(raw)) = <<>> THEN Ok(PyNone)
    ELSE IF raw.t = "date" THEN Ok(PyStr(IsoFormat(raw.y, raw.m, raw.d)))
    ELSE LET s == Strip(Str(raw))
         IN IF YmdSplits(s) # {}
            THEN LET k == CHOOSE k \in YmdSplits(s) : TRUE
                     y == StrToNat(SubSeq(s, 1, 4))
                     mo == StrToNat(SubSeq(s, 6, 5 + k))
                     d == StrToNat(SubSeq(s, 7 + k, Len(s)))
                 IN Ok(PyStr(IsoFormat(y, mo, d)))
            ELSE Ok(PyStr(s))

parse_date(raw) ==
    IF raw.t = "none" \/ Strip(Str(raw)) = <<>> THEN Ok(PyNone)
    ELSE IF raw.t = "date" THEN Ok(PyStr(IsoFormat(raw.y, raw.m, raw.d)))
    ELSE LET s == Strip(Str(raw))
         IN IF YmdSplits(s) # {}
            THEN LET k == CHOOSE k \in YmdSplits(s) : TRUE
                     y == StrToNat(SubSeq(s, 1, 4))
                     mo == StrToNat(SubSeq(s, 6, 5 + k))
                     d == StrToNat(SubSeq(s, 7 + k, Len(s)))
                 IN IF ValidDate(y, mo, d) THEN Ok(PyStr(IsoFormat(y, mo, d)))
                    ELSE [err |-> TRUE, v |-> PyNone]
            ELSE Ok(PyStr(s))

\* ------------------------------------------------------------------------
\* parse_list
\* ------------------------------------------------------------------------
\* s.split(sep) for a one-character separator
RECURSIVE SplitFrom(_, _, _)
SplitFrom(s, sep, start) ==
    LET hits == {i \in start..Len(s) : s[i] = sep}
    IN IF hits = {} THEN <<SubSeq(s, start, Len(s))>>
       ELSE LET i == CHOOSE i \in hits : \A j \in hits : i <= j
            IN <<SubSeq(s, start, i - 1)>> \o SplitFrom(s, sep, i + 1)

Split(s, sep) == SplitFrom(s, sep, 1)

RECURSIVE StripAndDropEmpty(_)
StripAndDropEmpty(items) ==
    IF items = <<>> THEN <<>>
    ELSE IF Strip(Head(items)) # <<>>
         THEN <<Strip(Head(items))>> \o StripAndDropEmpty(Tail(items))
         ELSE StripAndDropEmpty(Tail(items))

parse_list(raw, sep) ==
    IF raw.t = "none" THEN <<>>
    ELSE LET s == Strip(Str(raw))
         IN IF s = <<>> THEN <<>> ELSE StripAndDropEmpty(Split(s, sep))

\* ------------------------------------------------------------------------
\* YAML serialisation
\* ------------------------------------------------------------------------
RECURSIVE Escape(_)
Escape(s) ==
    IF s = <<>> THEN <<>>
    ELSE (CASE Head(s) = "\\" -> <<"\\", "\\">>
            [] Head(s) = "\"" -> <<"\\", "\"">>
            [] OTHER -> <<Head(s)>>) \o Escape(Tail(s))

yaml_quote(s) == <<"\"">> \o Escape(s) \o <<"\"">>

RECURSIVE Join(_, _)
Join(items, sep) ==
    IF items = <<>> THEN <<>>
    ELSE IF Len(items) = 1 THEN items[1]
    ELSE items[1] \o sep \o Join(Tail(items), sep)

to_yaml_value(v) ==
    CASE v.t = "bool" -> IF v.b THEN <<"t", "r", "u", "e">> ELSE <<"f", "a", "l", "s", "e">>
      [] v.t = "none" -> <<"n", "u", "l", "l">>
      [] v.t \in {"int", "float"} -> NatToStr(v.n)
      [] v.t = "list" ->
            IF v.xs = <<>> THEN <<"[", "]">>
            ELSE <<"[">> \o Join([i \in 1..Len(v.xs) |-> yaml_quote(v.xs[i])], <<",", " ">>) \o <<"]">>
      [] OTHER -> yaml_quote(Str(v))

\* fields: the dict in insertion order, a sequence of [k, v]
RECURSIVE FieldLines(_)
FieldLines(fields) ==
    IF fields = <<>> THEN <<>>
    ELSE IF Head(fields).v.t = "none" THEN FieldLines(Tail(fields))
    ELSE <<Head(fields).k \o <<":", " ">> \o to_yaml_value(Head(fields).v)>>
         \o FieldLines(Tail(fields))

\* a build_front_matter that emits every key, null or not
RECURSIVE FieldLinesAll(_)
FieldLinesAll(fields) ==
    IF fields = <<>> THEN <<>>
    ELSE <<Head(fields).k \o <<":", " ">> \o to_yaml_value(Head(fields).v)>>
         \o FieldLinesAll(Tail(fields))

Dashes == <<"-", "-", "-">>

build_front_matter_keeps_null(fields) ==
    Join(<<Dashes>> \o FieldLinesAll(fields) \o <<Dashes>>, <<"\n">>) \o <<"\n">>

build_front_matter(fields) ==
    Join(<<Dashes>> \o FieldLines(fields) \o <<Dashes>>, <<"\n">>) \o <<"\n">>

\* ------------------------------------------------------------------------
\* main: command line defaults, header lookup
\* ------------------------------------------------------------------------
IdCol == "id"
TitleCol == "title"
DateCol == "date"
AttachmentsCol == "attachments"
TagsCol == "tags"
NotesCol == "notes"
DefaultLayout == <<"t", "h", "e", "m", "e">>
AssetsBase == <<"/", "a", "s", "s", "e", "t", "s", "/", "w", "o", "r", "k", "s">>

\* header_index.get(col_name): the last column so named, 0 for None.
\* hdr holds the stripped header names, "" for an empty header cell.
HeaderIndex(hdr, col_name) ==
    LET hits == {i \in 1..Len(hdr) : hdr[i] = col_name /\ hdr[i] # ""}
    IN IF hits = {} THEN 0 ELSE CHOOSE i \in hits : \A j \in hits : j <= i

cell(row, col_name, hdr) ==
    LET i == HeaderIndex(hdr, col_name)
    IN IF i = 0 \/ i > Len(row) THEN PyNone ELSE row[i]

\* a required-field test that only looks at the id
MissingRequiredIdOnly(row, hdr) == cell(row, IdCol, hdr).t = "none"

MissingRequired(row, hdr) ==
    LET raw_id == cell(row, IdCol, hdr)
        raw_title == cell(row, TitleCol, hdr)
    IN raw_id.t = "none" \/ raw_title.t = "none" \/ Strip(Str(raw_title)) = <<>>

\* str(v).strip() if v else None
OptStr(v) == IF Truthy(v) THEN PyStr(Strip(Str(v))) ELSE PyNone

\* template.format(id=wid) for a template whose only field is {id}
RECURSIVE Format(_, _)
Format(tpl, wid) ==
    IF tpl = <<>> THEN <<>>
    ELSE IF Len(tpl) >= 4 /\ SubSeq(tpl, 1, 4) = <<"{", "i", "d", "}">>
         THEN wid \o Format(SubSeq(tpl, 5, Len(tpl)), wid)
         ELSE <<Head(tpl)>> \o Format(Tail(tpl), wid)

Field(k, v) == [k |-> k, v |-> v]

\* the fm dict of one row, in insertion order
FrontMatterFields(row, hdr, a, wid, title, date_val, catalogue_date) ==
    LET tags == parse_list(cell(row, TagsCol, hdr), ",")
        layout == IF Truthy(cell(row, "layout", hdr))
                  THEN Strip(Str(cell(row, "layout", hdr))) ELSE DefaultLayout
    IN << Field(<<"t", "i", "t", "l", "e">>, PyStr(title)),
          Field(<<"d", "a", "t", "e">>, PyStr(date_val)),
          Field(<<"l", "a", "y", "o", "u", "t">>, PyStr(layout)),
          Field(<<"w", "o", "r", "k", "_", "i", "d">>, PyStr(wid)),
          Field(<<"c", "a", "t", "a", "l", "o", "g", "u", "e", "_", "d", "a", "t", "e">>,
                catalogue_date),
          Field(<<"s", "e", "r", "i", "e", "s">>, OptStr(cell(row, "series", hdr))),
          Field(<<"m", "e", "d", "i", "u", "m">>, OptStr(cell(row, "medium", hdr))),
          Field(<<"d", "i", "m", "e", "n", "s", "i", "o", "n", "s">>,
                OptStr(cell(row, "dimensions", hdr))),
          Field(<<"p", "r", "i", "m", "a", "r", "y">>, OptStr(cell(row, "primary", hdr))),
          Field(<<"t", "h", "u", "m", "b">>, OptStr(cell(row, "thumb", hdr))),
          Field(<<"t", "a", "g", "s">>, IF tags # <<>> THEN PyList(tags) ELSE PyNone) >>
       \o (IF a.permalink # <<>>
           THEN <<Field(<<"p", "e", "r", "m", "a", "l", "i", "n", "k">>,
                        PyStr(Format(a.permalink, wid)))>>
           ELSE <<>>)

AttachmentUrls(row, hdr, wid) ==
    LET attachments == parse_list(cell(row, AttachmentsCol, hdr), ";")
    IN [i \in 1..Len(attachments) |->
            AssetsBase \o <<"/">> \o wid \o <<"/", "f", "i", "l", "e", "s", "/">> \o attachments[i]]

\* url.split("/")[-1]
LastSegment(url) == LET parts == Split(url, "/") IN parts[Len(parts)]

BodyLines(row, hdr, wid) ==
    LET notes == cell(row, NotesCol, hdr)
        urls == AttachmentUrls(row, hdr, wid)
    IN (IF Truthy(notes) /\ Strip(Str(notes)) # <<>>
        THEN <<Strip(Str(notes)), <<>>>> ELSE <<>>)
       \o (IF urls # <<>>
           THEN <<<<"#", "#", " ", "S", "u", "p", "p", "l", "e", "m", "e", "n", "t", "s">>>>
                \o [i \in 1..Len(urls) |->
                       <<"-", " ", "[">> \o LastSegment(urls[i]) \o <<"]", "(">> \o urls[i] \o <<")">>]
                \o <<<<>>>>
           ELSE <<>>)

Content(fields, body_lines) ==
    build_front_matter(fields) \o RStrip(Join(body_lines, <<"\n">>)) \o <<"\n">>

\* slug_id(raw_id) of the row
RowWid(row, hdr) == slug_id(cell(row, IdCol, hdr), DefaultWidth)

\* slug_id or one of the two parse_date calls of the loop body raises
RowError(row, hdr) ==
    \/ RowWid(row, hdr).err
    \/ parse_date(cell(row, DateCol, hdr)).err
    \/ parse_date(cell(row, "catalogue_date", hdr)).err

\* parse_date(date cell) is None, so "or" goes on to read dt.date.today()
NeedsToday(row, hdr) == parse_date(cell(row, DateCol, hdr)).v.t = "none"

\* The text assembled for a row that raised nothing; today is the ISO text of
\* dt.date.today(), read only when the date cell gives None.
RowContent(row, hdr, a, today) ==
    LET wid == RowWid(row, hdr).v
        title == Strip(Str(cell(row, TitleCol, hdr)))
        date_r == parse_date(cell(row, DateCol, hdr))
        date_val == IF date_r.v.t = "none" THEN today ELSE date_r.v.s
        catalogue_date == parse_date(cell(row, "catalogue_date", hdr)).v
        fm == FrontMatterFields(row, hdr, a, wid, title, date_val, catalogue_date)
    IN Content(fm, BodyLines(row, hdr, wid))

\* out_dir / f"{wid}.md", as the file's name inside the output directory
OutName(wid) == wid \o <<".", "m", "d">>

\* ------------------------------------------------------------------------
\* Inputs: sheets, command lines, output directories, clock readings
\* ------------------------------------------------------------------------
HFull == <<"id", "title", "date", "notes", "tags", "attachments", "catalogue_date",
           "series", "medium", "dimensions", "primary", "thumb", "layout">>
\* the third column is catalogue_date, there is no date or notes column
HCat == <<"id", "title", "catalogue_date", "", "tags", "attachments">>
HNoId == <<"", "title", "date">>

\* both notes and attachments (attachments only under HCat); a numeric Excel id;
\* optional cells of every kind
RowA == <<PyFloat(1), PyStr(<<"A">>), PyStr(<<"2", "0", "2", "4", "-", "3", "-", "5">>),
          PyStr(<<" ", "n", " ">>), PyStr(<<"x", ",", " ", "y">>), PyStr(<<"a", ";", "b">>),
          PyDate(2020, 2, 29), PyStr(<<"S">>), PyNone, PyStr(<<" ">>), PyInt(0),
          PyStr(<<"t">>), PyNone>>
\* a short row: same id as RowA after normalisation, no date, notes or attachments
RowB == <<PyStr(<<"a", "1">>), PyStr(<<"B">>)>>
\* title cell absent
RowC == <<PyInt(3)>>
\* title blank
RowD == <<PyStr(<<"2">>), PyStr(<<" ", " ">>)>>
\* id without a digit
RowE == <<PyStr(<<"x">>), PyStr(<<"E">>)>>
\* third cell (date or catalogue_date, by the header) that is no calendar date
RowF == <<PyStr(<<"2">>), PyStr(<<"F">>), PyStr(<<"2", "0", "2", "4", "-", "1", "3", "-", "1">>)>>
\* notes only; a title to escape; a blank date cell; a layout cell
RowH == <<PyInt(2), PyStr(<<"H", "\"">>), PyStr(<<" ">>), PyStr(<<"n", "\n">>),
          PyStr(<<" ", ",">>), PyNone, PyNone, PyNone, PyNone, PyNone, PyNone, PyNone,
          PyStr(<<"w">>)>>

RowPool == {RowA, RowB, RowC, RowD, RowE, RowF, RowH}

PermalinkTemplate == <<"/", "w", "/", "{", "i", "d", "}", "/">>

\* header row and --permalink of a run
Layouts == { [hdr |-> HFull, permalink |-> <<>>],
             [hdr |-> HCat, permalink |-> PermalinkTemplate],
             [hdr |-> HNoId, permalink |-> <<>>] }

EmptySheet == [empty |-> TRUE, hdr |-> <<>>, rows |-> <<>>]

Sheets ==
    {EmptySheet} \cup
    { [empty |-> FALSE, hdr |-> h, rows |-> rs] :
        h \in {l.hdr : l \in Layouts},
        rs \in UNION {[1..n -> RowPool] : n \in 0..MaxRows} }

NoFiles == [n \in {} |-> <<>>]

OldFile == (<<"0", "0", "0", "0", "1", ".", "m", "d">> :> <<"o", "l", "d", "\n">>)

\* the output directory before the first run: absent, or holding a page
Directories == { [exists |-> FALSE, files |-> NoFiles],
                 [exists |-> TRUE, files |-> OldFile] }

\* values dt.date.today() can give
Days == {<<2026, 11, 6>>, <<2026, 11, 7>>}

Today(d) == IsoFormat(d[1], d[2], d[3])

\* the clock readings a row's document can depend on: the clock is read only
\* when the date cell gives None
ClockReadings(row, hdr) ==
    IF NeedsToday(row, hdr) THEN Days ELSE {CHOOSE d \in Days : TRUE}

\* a write that appends to what the file holds
WriteTextAppend(files, name, text) ==
    [n \in DOMAIN files \cup {name} |->
        IF n = name THEN (IF name \in DOMAIN files THEN files[name] \o text ELSE text)
        ELSE files[n]]

\* out_path.write_text(content): create or replace the file
WriteText(files, name, text) ==
    [n \in DOMAIN files \cup {name} |-> IF n = name THEN text ELSE files[n]]

\* ------------------------------------------------------------------------
\* State
\* ------------------------------------------------------------------------
VARIABLES
    sheet,      \* the worksheet: header row and data rows
    args,       \* the parsed command line: write, force, permalink
    dirExists,  \* the output directory exists
    fs,         \* the files of the output directory: name -> text
    pc,         \* "init", "loop", "done", "aborted" (uncaught ValueError), "exit" (SystemExit)
    run,        \* which invocation of the script this is (1 or 2)
    idx,        \* the data row the loop is at
    written,
    skipped,
    content,    \* the text last assembled
    out,        \* standard output, each line tagged with its run and row
    fsStart,    \* history: fs when this run started
    dirStart,   \* history: dirExists when this run started
    writeOps,   \* history: write_text calls of this run
    docs,       \* history: per row of this run, the text assembled (<<>> if none)
    daysUsed,   \* history: the clock readings that went into a document
    idRaw,      \* slug_id alone: the raw value
    idWidth,    \* slug_id alone: the width
    idOnce,     \* slug_id alone: slug_id(raw)
    idTwice,    \* slug_id alone: slug_id(slug_id(raw))
    idPc

batchVars == <<sheet, args, dirExists, fs, pc, run, idx, written, skipped, content, out,
               fsStart, dirStart, writeOps, docs, daysUsed>>
idVars == <<idRaw, idWidth, idOnce, idTwice, idPc>>
vars == <<batchVars, idVars>>

Line(kind, name, flag) ==
    [run |-> run, row |-> idx, kind |-> kind, name |-> name, flag |-> flag,
     written |-> written, skipped |-> skipped]

IdIdle ==
    /\ idRaw = PyNone
    /\ idWidth = 0
    /\ idOnce = ValueError
    /\ idTwice = ValueError
    /\ idPc = "off"

Init ==
    /\ sheet \in Sheets
    /\ \E l \in Layouts, w \in BOOLEAN, f \in BOOLEAN :
          /\ (~sheet.empty => sheet.hdr = l.hdr)
          /\ (sheet.empty => l.hdr = HFull)
          /\ args = [write |-> w, force |-> f, permalink |-> l.permalink]
    /\ \E d \in Directories :
          /\ dirExists = d.exists
          /\ fs = d.files
          /\ dirStart = d.exists
          /\ fsStart = d.files
    /\ pc = "init"
    /\ run = 1
    /\ idx = 0
    /\ written = 0
    /\ skipped = 0
    /\ content = <<>>
    /\ out = <<>>
    /\ writeOps = 0
    /\ docs = <<>>
    /\ daysUsed = {}
    /\ IdIdle

\* ------------------------------------------------------------------------
\* main
\* ------------------------------------------------------------------------
\* rows is empty: SystemExit("Sheet is empty"), before the output directory is touched
StartEmpty ==
    /\ pc = "init"
    /\ sheet.empty
    /\ pc' = "exit"
    /\ UNCHANGED <<sheet, args, dirExists, fs, run, idx, written, skipped, content, out,
                   fsStart, dirStart, writeOps, docs, daysUsed>>
    /\ UNCHANGED idVars

\* out_dir.mkdir(parents=True, exist_ok=True)
Mkdir(d) == TRUE

\* header, out_dir.mkdir, the counters
Start ==
    /\ pc = "init"
    /\ ~sheet.empty
    /\ dirExists' = Mkdir(dirExists)
    /\ written' = 0
    /\ skipped' = 0
    /\ idx' = 1
    /\ pc' = "loop"
    /\ UNCHANGED <<sheet, args, fs, run, content, out, fsStart, dirStart, writeOps, docs,
                   daysUsed>>
    /\ UNCHANGED idVars

AtRow == pc = "loop" /\ idx <= Len(sheet.rows)

\* a policy with the flag inverted
SkipsExistingWhenForced(exists, force) == exists /\ force

\* a policy that never skips
SkipsExistingNever(exists, force) == FALSE

\* exists and not args.force
SkipsExisting(exists, force) == exists /\ ~force

\* a required-field skip that forgets to count
SkipMissingUncounted ==
    /\ AtRow
    /\ MissingRequired(sheet.rows[idx], sheet.hdr)
    /\ idx' = idx + 1
    /\ docs' = Append(docs, <<>>)
    /\ UNCHANGED <<sheet, args, dirExists, fs, pc, run, written, skipped, content, out,
                   fsStart, dirStart, writeOps, daysUsed>>
    /\ UNCHANGED idVars

\* a required field is missing: skipped += 1; continue
SkipMissing ==
    /\ AtRow
    /\ MissingRequired(sheet.rows[idx], sheet.hdr)
    /\ skipped' = skipped + 1
    /\ idx' = idx + 1
    /\ docs' = Append(docs, <<>>)
    /\ UNCHANGED <<sheet, args, dirExists, fs, pc, run, written, content, out, fsStart,
                   dirStart, writeOps, daysUsed>>
    /\ UNCHANGED idVars

\* slug_id or parse_date raises ValueError, which nothing catches
Abort ==
    /\ AtRow
    /\ ~MissingRequired(sheet.rows[idx], sheet.hdr)
    /\ RowError(sheet.rows[idx], sheet.hdr)
    /\ pc' = "aborted"
    /\ UNCHANGED <<sheet, args, dirExists, fs, run, idx, written, skipped, content, out,
                   fsStart, dirStart, writeOps, docs, daysUsed>>
    /\ UNCHANGED idVars

\* the file exists and --force is off: SKIP (exists); skipped += 1; continue
SkipExists ==
    /\ AtRow
    /\ ~MissingRequired(sheet.rows[idx], sheet.hdr)
    /\ ~RowError(sheet.rows[idx], sheet.hdr)
    /\ LET name == OutName(RowWid(sheet.rows[idx], sheet.hdr).v)
       IN /\ SkipsExisting(name \in DOMAIN fs, args.force)
          /\ out' = Append(out, Line("SKIP", name, TRUE))
          /\ \E d \in ClockReadings(sheet.rows[idx], sheet.hdr) :
                LET text == RowContent(sheet.rows[idx], sheet.hdr, args, Today(d))
                IN /\ content' = text
                   /\ docs' = Append(docs, text)
                   /\ daysUsed' = IF NeedsToday(sheet.rows[idx], sheet.hdr)
                                  THEN daysUsed \cup {d} ELSE daysUsed
    /\ skipped' = skipped + 1
    /\ idx' = idx + 1
    /\ UNCHANGED <<sheet, args, dirExists, fs, pc, run, written, fsStart, dirStart, writeOps>>
    /\ UNCHANGED idVars

\* --write: out_path.write_text(content); WRITE; written += 1
WriteFile ==
    /\ AtRow
    /\ ~MissingRequired(sheet.rows[idx], sheet.hdr)
    /\ args.write
    /\ ~RowError(sheet.rows[idx], sheet.hdr)
    /\ LET name == OutName(RowWid(sheet.rows[idx], sheet.hdr).v)
       IN /\ ~SkipsExisting(name \in DOMAIN fs, args.force)
          /\ out' = Append(out, Line("WRITE", name, name \in DOMAIN fs))
          /\ \E d \in ClockReadings(sheet.rows[idx], sheet.hdr) :
                LET text == RowContent(sheet.rows[idx], sheet.hdr, args, Today(d))
                IN /\ content' = text
                   /\ fs' = WriteText(fs, name, text)
                   /\ docs' = Append(docs, text)
                   /\ daysUsed' = IF NeedsToday(sheet.rows[idx], sheet.hdr)
                                  THEN daysUsed \cup {d} ELSE daysUsed
    /\ written' = written + 1
    /\ writeOps' = writeOps + 1
    /\ idx' = idx + 1
    /\ UNCHANGED <<sheet, args, dirExists, pc, run, skipped, fsStart, dirStart>>
    /\ UNCHANGED idVars

\* no --write: DRY-RUN: would write ... (overwrite=exists); written += 1
DryRun ==
    /\ AtRow
    /\ ~MissingRequired(sheet.rows[idx], sheet.hdr)
    /\ ~args.write
    /\ ~RowError(sheet.rows[idx], sheet.hdr)
    /\ LET name == OutName(RowWid(sheet.rows[idx], sheet.hdr).v)
       IN /\ ~SkipsExisting(name \in DOMAIN fs, args.force)
          /\ out' = Append(out, Line("DRY-RUN", name, name \in DOMAIN fs))
          /\ \E d \in ClockReadings(sheet.rows[idx], sheet.hdr) :
                LET text == RowContent(sheet.rows[idx], sheet.hdr, args, Today(d))
                IN /\ content' = text
                   /\ docs' = Append(docs, text)
                   /\ daysUsed' = IF NeedsToday(sheet.rows[idx], sheet.hdr)
                                  THEN daysUsed \cup {d} ELSE daysUsed
    /\ written' = written + 1
    /\ idx' = idx + 1
    /\ UNCHANGED <<sheet, args, dirExists, fs, pc, run, skipped, fsStart, dirStart, writeOps>>
    /\ UNCHANGED idVars

\* the loop is over: the summary line
Finish ==
    /\ pc = "loop"
    /\ idx > Len(sheet.rows)
    /\ out' = Append(out, Line("DONE", <<>>, args.write))
    /\ pc' = "done"
    /\ UNCHANGED <<sheet, args, dirExists, fs, run, idx, written, skipped, content, fsStart,
                   dirStart, writeOps, docs, daysUsed>>
    /\ UNCHANGED idVars

\* the same command line is run once more on the same workbook
Rerun ==
    /\ pc \in {"done", "aborted", "exit"}
    /\ run = 1
    /\ run' = 2
    /\ pc' = "init"
    /\ idx' = 0
    /\ written' = 0
    /\ skipped' = 0
    /\ content' = <<>>
    /\ writeOps' = 0
    /\ docs' = <<>>
    /\ fsStart' = fs
    /\ dirStart' = dirExists
    /\ UNCHANGED <<sheet, args, dirExists, fs, out, daysUsed>>
    /\ UNCHANGED idVars

Next ==
    \/ StartEmpty
    \/ Start
    \/ SkipMissing
    \/ Abort
    \/ SkipExists
    \/ WriteFile
    \/ DryRun
    \/ Finish
    \/ Rerun

Spec == Init /\ [][Next]_vars

\* ------------------------------------------------------------------------
\* slug_id on its own: applied to a raw value, then to its own result
\* ------------------------------------------------------------------------
IdChars == {"0", "3", ".", "a", " "}

IdNums == {0, 361}

IdInputs ==
    {PyNone}
    \cup {PyStr(s) : s \in UNION {[1..n -> IdChars] : n \in 0..MaxIdLen}}
    \cup {PyStr(<<"3", "6", "1", ".", "0">>), PyStr(<<"a", "b", "c">>)}
    \cup {PyInt(n) : n \in IdNums}
    \cup {PyFloat(n) : n \in IdNums}

BatchIdle ==
    /\ sheet = EmptySheet
    /\ args = [write |-> FALSE, force |-> FALSE, permalink |-> <<>>]
    /\ dirExists = FALSE
    /\ fs = NoFiles
    /\ pc = "off"
    /\ run = 1
    /\ idx = 0
    /\ written = 0
    /\ skipped = 0
    /\ content = <<>>
    /\ out = <<>>
    /\ fsStart = NoFiles
    /\ dirStart = FALSE
    /\ writeOps = 0
    /\ docs = <<>>
    /\ daysUsed = {}

InitId ==
    /\ BatchIdle
    /\ idRaw \in IdInputs
    /\ idWidth \in 0..MaxWidth
    /\ idOnce = ValueError
    /\ idTwice = ValueError
    /\ idPc = "in"

IdApply ==
    /\ idPc = "in"
    /\ idOnce' = slug_id(idRaw, idWidth)
    /\ idPc' = "once"
    /\ UNCHANGED <<idRaw, idWidth, idTwice>>
    /\ UNCHANGED batchVars

IdApplyAgain ==
    /\ idPc = "once"
    /\ ~idOnce.err
    /\ idTwice' = slug_id(PyStr(idOnce.v), idWidth)
    /\ idPc' = "twice"
    /\ UNCHANGED <<idRaw, idWidth, idOnce>>
    /\ UNCHANGED batchVars

NextId == IdApply \/ IdApplyAgain

SpecId == InitId /\ [][NextId]_vars

\* ------------------------------------------------------------------------
\* Properties of slug_id (specification SpecId)
\* ------------------------------------------------------------------------
HasDigit(s) == \E i \in 1..Len(s) : IsDigit(s[i])

\* the text of the raw value, trimmed, less one trailing ".0"
IdCore(raw) ==
    LET s == Strip(Str(raw))
    IN IF Len(s) >= 2 /\ s[Len(s) - 1] = "." /\ s[Len(s)] = "0"
       THEN SubSeq(s, 1, Len(s) - 2) ELSE s

\* C8 as stated: every raw identifier that contains a digit is normalised
\* (slug_id does not fail on it), and normalising the result again changes nothing.
C8_DigitImpliesSuccess ==
    (idPc # "in" /\ idRaw.t # "none" /\ HasDigit(Str(idRaw)))
        => (/\ ~idOnce.err
            /\ (idPc = "twice" => idTwice = idOnce))

\* C8 amended: slug_id succeeds exactly when a digit is left after the raw text
\* is trimmed and one trailing ".0" is removed (so "a.0" and ".0" fail although
\* they contain a digit, and every digit-free input fails); on success the
\* result is a digit string of at least the width, and slug_id maps it to itself.
C8_SlugIdIdempotent ==
    /\ idPc # "in" =>
          /\ idOnce.err <=> (idRaw.t = "none" \/ ~HasDigit(IdCore(idRaw)))
          /\ (idRaw.t # "none" /\ ~HasDigit(Str(idRaw))) => idOnce.err
          /\ ~idOnce.err =>
                /\ idOnce.v # <<>>
                /\ \A i \in 1..Len(idOnce.v) : IsDigit(idOnce.v[i])
                /\ Len(idOnce.v) >= idWidth
          /\ (idWidth = DefaultWidth /\ idRaw \in {PyStr(<<"3", "6", "1", ".", "0">>),
                                                   PyInt(361), PyFloat(361)})
                => idOnce = Ok(<<"0", "0", "3", "6", "1">>)
    /\ idPc = "twice" => (~idTwice.err /\ idTwice = idOnce)

\* an Excel-style numeric id has been normalised twice
C8_Witness ==
    /\ idPc = "twice"
    /\ idRaw = PyStr(<<"3", "6", "1", ".", "0">>)
    /\ idWidth = DefaultWidth
    /\ idTwice = Ok(<<"0", "0", "3", "6", "1">>)

\* ------------------------------------------------------------------------
\* Properties of a run (specification Spec)
\* ------------------------------------------------------------------------
InRun == pc \in {"loop", "done", "aborted"}

\* the row lacks a required field, read off the cells
LacksRequired(i) ==
    LET raw_id == cell(sheet.rows[i], IdCol, sheet.hdr)
        raw_title == cell(sheet.rows[i], TitleCol, sheet.hdr)
    IN \/ raw_id.t = "none"
       \/ raw_title.t = "none"
       \/ \A k \in 1..Len(Str(raw_title)) : IsSpace(Str(raw_title)[k])

\* the file a processed row targets
RowName(i) == OutName(RowWid(sheet.rows[i], sheet.hdr).v)

\* the rows of this run that got as far as the existence test
DocRows == {i \in 1..Len(docs) : docs[i] # <<>>}

HasLine(r, i, kind, name) ==
    \E j \in 1..Len(out) :
        out[j].run = r /\ out[j].row = i /\ out[j].kind = kind /\ out[j].name = name

\* C1 as stated: a dry run that completes leaves the file system as it found it:
\* no file or directory is created, changed or removed; only output is produced.
C1_DryRunLeavesFileSystem ==
    (pc = "done" /\ ~args.write) => (fs = fsStart /\ dirExists = dirStart)

\* C2: without --force no file that exists is ever changed; in the second of two
\* --write runs on the same sheet nothing is written, every row processed is
\* counted as skipped, each row the first run wrote is reported as SKIP, and the
\* files hold what they held after the first run.
C2_NoForceKeepsFiles ==
    ~args.force =>
        /\ \A n \in DOMAIN fsStart : n \in DOMAIN fs /\ fs[n] = fsStart[n]
        /\ \A j \in 1..Len(out) :
              (out[j].run = run /\ out[j].kind = "WRITE" /\ InRun)
                  => (out[j].name \in DOMAIN fs /\ fs[out[j].name] = docs[out[j].row])
        /\ (args.write /\ run = 2 /\ InRun) =>
              /\ fs = fsStart
              /\ written = 0
              /\ writeOps = 0
              /\ skipped = Len(docs)
              /\ \A j \in 1..Len(out) :
                    (out[j].run = 1 /\ out[j].kind = "WRITE" /\ out[j].row <= Len(docs))
                        => HasLine(2, out[j].row, "SKIP", out[j].name)

\* a second --write run without --force has skipped a row the first run wrote
C2_Witness ==
    /\ args.write /\ ~args.force
    /\ run = 2 /\ pc = "done"
    /\ \E j \in 1..Len(out) :
          /\ out[j].run = 1 /\ out[j].kind = "WRITE"
          /\ HasLine(2, out[j].row, "SKIP", out[j].name)
    /\ skipped = Len(sheet.rows)
    /\ daysUsed = Days

\* every row of this run with its required fields present was written
AllRewritten ==
    InRun =>
        /\ \A i \in 1..Len(docs) :
              ~LacksRequired(i) => HasLine(run, i, "WRITE", RowName(i))
        /\ \A j \in 1..Len(out) : out[j].kind # "SKIP"
        /\ writeOps = Cardinality({i \in 1..Len(docs) : ~LacksRequired(i)})

\* C3 as stated: with --write --force every valid row is rewritten, and a second
\* run on the same sheet leaves every file with the content the first run gave it.
C3_ForceRebuildIdentical ==
    (args.write /\ args.force) =>
        /\ AllRewritten
        /\ (run = 2 /\ pc \in {"done", "aborted"}) => fs = fsStart

\* C3 amended: with --write --force every valid row the run reaches is rewritten,
\* and a second run on the same sheet leaves every file with the content the
\* first run gave it provided the clock gave one date wherever a row without a
\* date was stamped (such a row carries today's date).
C3_ForceRebuildSameDay ==
    (args.write /\ args.force) =>
        /\ AllRewritten
        /\ (run = 2 /\ pc \in {"done", "aborted"} /\ Cardinality(daysUsed) <= 1)
              => fs = fsStart

\* a second forced run has overwritten, on the same day, a page that carries today's date
C3_Witness ==
    /\ args.write /\ args.force
    /\ run = 2 /\ pc = "done"
    /\ Cardinality(daysUsed) = 1
    /\ \E j \in 1..Len(out) :
          /\ out[j].run = 2 /\ out[j].kind = "WRITE" /\ out[j].flag
          /\ NeedsToday(sheet.rows[out[j].row], sheet.hdr)
    /\ fs = fsStart

\* C4: of the processed rows that target one file, with --write --force the last
\* gives the file its content; with --write alone, and the file absent when the
\* run began, the first does, and each later one is reported as SKIP and counted.
C4_CollisionOrder ==
    (args.write /\ InRun) =>
        /\ \A i \in DocRows :
              LET same == {k \in DocRows : RowName(k) = RowName(i)}
                  first == CHOOSE k \in same : \A m \in same : k <= m
                  last == CHOOSE k \in same : \A m \in same : m <= k
              IN /\ RowName(i) \in DOMAIN fs
                 /\ args.force => fs[RowName(i)] = docs[last]
                 /\ (~args.force /\ RowName(i) \notin DOMAIN fsStart) =>
                       /\ fs[RowName(i)] = docs[first]
                       /\ \A k \in same \ {first} : HasLine(run, k, "SKIP", RowName(i))
        /\ ~args.force =>
              skipped = Cardinality({i \in 1..Len(docs) : docs[i] = <<>>})
                        + Cardinality({j \in 1..Len(out) : out[j].run = run /\ out[j].kind = "SKIP"})

\* two rows with different text have met on a new file, without --force
C4_Witness ==
    /\ args.write /\ ~args.force /\ pc = "done"
    /\ DocRows = {1, 2}
    /\ RowName(1) = RowName(2)
    /\ RowName(1) \notin DOMAIN fsStart
    /\ docs[1] # docs[2]
    /\ fs[RowName(1)] = docs[1]
    /\ skipped = 1

\* C5: a row whose id cell is absent, whose title cell is absent or whose title is
\* blank is skipped: skipped goes up by one, nothing is written or printed, the
\* run does not abort and goes on to the next row.
C5_MissingFieldSkipped ==
    [][(AtRow /\ LacksRequired(idx)) =>
          /\ skipped' = skipped + 1
          /\ written' = written
          /\ fs' = fs
          /\ out' = out
          /\ pc' = "loop"
          /\ idx' = idx + 1]_vars

\* a row with a blank title was skipped and the next row was written
C5_Witness ==
    /\ pc = "done"
    /\ args.write
    /\ Len(sheet.rows) = 2
    /\ sheet.rows[1] = RowD
    /\ skipped = 1
    /\ written = 1
    /\ HasLine(run, 2, "WRITE", RowName(2))

\* the cell holds text of the form YYYY-M-D that names no calendar date
InvalidDateText(v) ==
    /\ v.t = "str"
    /\ LET s == Strip(v.s)
       IN /\ YmdSplits(s) # {}
          /\ LET k == CHOOSE k \in YmdSplits(s) : TRUE
             IN ~ValidDate(StrToNat(SubSeq(s, 1, 4)), StrToNat(SubSeq(s, 6, 5 + k)),
                           StrToNat(SubSeq(s, 7 + k, Len(s))))

\* the row has its required fields, and an id without a digit or an invalid date
Malformed(i) ==
    /\ ~LacksRequired(i)
    /\ \/ ~HasDigit(Str(cell(sheet.rows[i], IdCol, sheet.hdr)))
       \/ InvalidDateText(cell(sheet.rows[i], DateCol, sheet.hdr))
       \/ InvalidDateText(cell(sheet.rows[i], "catalogue_date", sheet.hdr))

\* C6: at a row with an id without a digit or an invalid date / catalogue_date the
\* run aborts: nothing is written, printed or counted for the row, the run does
\* nothing more (no later row, no summary), and the files stay as they are.
C6_MalformedRowAborts ==
    /\ [][(AtRow /\ Malformed(idx)) =>
             /\ pc' = "aborted"
             /\ UNCHANGED <<fs, out, written, skipped, idx, writeOps, docs>>]_vars
    /\ [][pc = "aborted" =>
             /\ pc' = "init" /\ run' = run + 1
             /\ UNCHANGED <<fs, out>>]_vars
    /\ [](pc = "aborted" =>
             \A j \in 1..Len(out) : out[j].run = run => out[j].kind # "DONE")

\* a run aborted at its second row, after writing the first
C6_Witness ==
    /\ pc = "aborted"
    /\ idx = 2
    /\ writeOps = 1
    /\ RowName(1) \in DOMAIN fs
    /\ fs[RowName(1)] = docs[1]

\* the lines of the metadata block of a document: between the two "---" lines
FrontMatterOf(text) ==
    LET lines == Split(text, "\n")
        close == CHOOSE j \in 2..Len(lines) :
                    lines[j] = Dashes /\ \A m \in 2..(j - 1) : lines[m] # Dashes
    IN SubSeq(lines, 2, close - 1)

\* one of the lines fm is "key: ..."
HasKey(fm, key) ==
    LET pre == key \o <<":", " ">>
    IN \E j \in 1..Len(fm) : Len(fm[j]) >= Len(pre) /\ SubSeq(fm[j], 1, Len(pre)) = pre

KCatalogueDate == <<"c", "a", "t", "a", "l", "o", "g", "u", "e", "_", "d", "a", "t", "e">>
KTags == <<"t", "a", "g", "s">>
KAttachments == <<"a", "t", "t", "a", "c", "h", "m", "e", "n", "t", "s">>
AlwaysKeys == {<<"t", "i", "t", "l", "e">>, <<"d", "a", "t", "e">>,
               <<"l", "a", "y", "o", "u", "t">>, <<"w", "o", "r", "k", "_", "i", "d">>}
OptionalKeys == { [col |-> "series", key |-> <<"s", "e", "r", "i", "e", "s">>],
                  [col |-> "medium", key |-> <<"m", "e", "d", "i", "u", "m">>],
                  [col |-> "dimensions", key |-> <<"d", "i", "m", "e", "n", "s", "i", "o", "n", "s">>],
                  [col |-> "primary", key |-> <<"p", "r", "i", "m", "a", "r", "y">>],
                  [col |-> "thumb", key |-> <<"t", "h", "u", "m", "b">>] }

AbsentOrEmpty(v) == v.t = "none" \/ (v.t = "str" /\ v.s = <<>>)

\* the optional descriptive keys are left out of the block fm of the last
\* document when the column is absent or the cell is empty
OptionalOmitted(fm) ==
    \A o \in OptionalKeys :
        AbsentOrEmpty(cell(sheet.rows[Len(docs)], o.col, sheet.hdr)) => ~HasKey(fm, o.key)

LastIsDoc == Len(docs) > 0 /\ docs[Len(docs)] # <<>>

\* C7 as stated: every document's metadata block has the keys catalogue_date and
\* tags, null or empty though their values may be, while the optional
\* descriptive keys are left out when the column is absent or the cell empty.
C7_StructuralKeysAlwaysPresent ==
    LastIsDoc =>
        LET fm == FrontMatterOf(docs[Len(docs)])
        IN /\ HasKey(fm, KCatalogueDate)
           /\ HasKey(fm, KTags)
           /\ OptionalOmitted(fm)

\* C7 amended: title, date, layout and work_id are always keyed; catalogue_date
\* is keyed exactly when its cell is present and not blank, tags exactly when the
\* cell holds a non-blank item, and attachments never (null values are dropped
\* for every key); the optional descriptive keys are left out when the column is
\* absent or the cell empty.
C7_NullKeysDropped ==
    LastIsDoc =>
        LET row == sheet.rows[Len(docs)]
            d == FrontMatterOf(docs[Len(docs)])
            cat == cell(row, "catalogue_date", sheet.hdr)
            tg == cell(row, TagsCol, sheet.hdr)
        IN /\ \A k \in AlwaysKeys : HasKey(d, k)
           /\ HasKey(d, KCatalogueDate)
                 <=> (cat.t # "none" /\ \E k \in 1..Len(Str(cat)) : ~IsSpace(Str(cat)[k]))
           /\ HasKey(d, KTags)
                 <=> (tg.t # "none"
                      /\ \E k \in 1..Len(Str(tg)) : ~IsSpace(Str(tg)[k]) /\ Str(tg)[k] # ",")
           /\ ~HasKey(d, KAttachments)
           /\ OptionalOmitted(d)

\* a document without catalogue_date and tags keys, for a row that has neither
C7_Witness ==
    /\ LastIsDoc
    /\ sheet.hdr = HFull
    /\ sheet.rows[Len(docs)] = RowH
    /\ ~HasKey(FrontMatterOf(docs[Len(docs)]), KCatalogueDate)
    /\ ~HasKey(FrontMatterOf(docs[Len(docs)]), KTags)
    /\ HasKey(FrontMatterOf(docs[Len(docs)]), <<"l", "a", "y", "o", "u", "t">>)

\* C9 as stated: every document ends with exactly one newline: its last
\* character is a newline and the one before is neither a newline nor other
\* whitespace.
C9_OneTrailingNewline ==
    LastIsDoc =>
        LET d == docs[Len(docs)]
        IN /\ Len(d) >= 2
           /\ d[Len(d)] = "\n"
           /\ ~IsSpace(d[Len(d) - 1])

\* C10: within a run written + skipped is the number of rows processed, at the
\* end the number of data rows; with --write, written is the number of
\* write_text calls; each row processed adds one to exactly one counter and no
\* step of a run lowers either.
C10_CountersAddUp ==
    /\ [](InRun =>
             /\ written + skipped = idx - 1
             /\ idx - 1 = Len(docs)
             /\ (pc = "done" => written + skipped = Len(sheet.rows))
             /\ (args.write => written = writeOps))
    /\ [][(pc = "loop" /\ run' = run) =>
             /\ written' >= written
             /\ skipped' >= skipped
             /\ (idx' = idx + 1) =>
                   \/ (written' = written + 1 /\ skipped' = skipped)
                   \/ (written' = written /\ skipped' = skipped + 1)
             /\ (idx' = idx) => (written' = written /\ skipped' = skipped)]_vars

\* a run has finished having both written and skipped
C10_Witness ==
    /\ pc = "done"
    /\ args.write
    /\ written = 1
    /\ skipped = 1
    /\ writeOps = 1
    /\ Len(sheet.rows) = 2

====
